---------------------------- MODULE Spec2Model ----------------------------
(* A model of server/ingest.py: the batch ingester that classifies the     *)
(* files of data/ingest by name, extracts records from their text, inserts *)
(* them in one transaction per file, and removes each file after commit.   *)
(*                                                                         *)
(* A Python str is a sequence of one-character strings; None is the        *)
(* one-element sequence <<"None">>, which no str equals because every      *)
(* element of a str has length one.                                        *)
EXTENDS Integers, Sequences, FiniteSets, TLC

VARIABLES
    folderExists,  \* os.path.exists(INGEST_FOLDER)
    dbUrl,         \* os.environ has DATABASE_URL
    listing,       \* the order in which os.listdir returns the entries
    dir,           \* the names now present in the ingest folder
    files,         \* main's list `files`
    idx,           \* position of the for loop in `files` (1-based)
    pc,            \* position of the program
    routine,       \* the ingest_*_file routine the file was handed to
    entries,       \* the rows the running ingest_*_file is about to insert
    k,             \* index in `entries` of the next cursor.execute
    pending,       \* rows inserted on the connection and not yet committed
    committed,     \* rows durably in the database
    fstate,        \* per enumerated file: Pending, Processing, Committed, Failed
    trace,         \* history: the <<filename, operation>> pairs performed so far
    arg,           \* input of the function under test (function specifications)
    ret,           \* its result
    c_start,       \* chunk_text's local `start`
    c_chunks,      \* chunk_text's local `chunks`
    run            \* the number of the run of main (1 for the first)

vars == <<folderExists, dbUrl, listing, dir, files, idx, pc, routine, entries, k,
          pending, committed, fstate, trace, arg, ret, c_start, c_chunks, run>>

---------------------------------------------------------------------------
(* Bounds of the model.                                                    *)

MaxFiles == 2

MaxSegs == 5

\* longest text given to chunk_text
MaxText == 5

\* largest chunk_size given to chunk_text
MaxSize == 3

\* most segments of a text given to extract_pipe_delimited
MaxPipeSegs == 6

\* most pieces of a document given to extract_arguments
MaxArgSegs == 4

---------------------------------------------------------------------------
(* Python str operations.                                                  *)

None == <<"None">>

Whitespace == {" ", "\t", "\n", "\r"}

Digits == {"0", "1", "2", "3", "4", "5", "6", "7", "8", "9"}

UpperCase == <<"A","B","C","D","E","F","G","H","I","J","K","L","M",
               "N","O","P","Q","R","S","T","U","V","W","X","Y","Z">>

LowerCase == <<"a","b","c","d","e","f","g","h","i","j","k","l","m",
               "n","o","p","q","r","s","t","u","v","w","x","y","z">>

Min(S) == CHOOSE x \in S : \A y \in S : x <= y

Max(S) == CHOOSE x \in S : \A y \in S : x >= y

Range(s) == {s[i] : i \in DOMAIN s}

\* a[start:end] with Python's 0-based, end-exclusive, clamped slice
Slice(s, start, end) == SubSeq(s, start + 1, IF end > Len(s) THEN Len(s) ELSE end)

lowerChar(c) ==
    IF \E i \in 1..26 : UpperCase[i] = c
    THEN LowerCase[CHOOSE i \in 1..26 : UpperCase[i] = c]
    ELSE c

\* str.lower()
lower(s) == [i \in 1..Len(s) |-> lowerChar(s[i])]

\* sub in s
In(sub, s) ==
    \E i \in 1..(Len(s) - Len(sub) + 1) : SubSeq(s, i, i + Len(sub) - 1) = sub

\* the 1-based position of the leftmost occurrence of sub in s, 0 when none
find(s, sub) ==
    LET hits == {i \in 1..(Len(s) - Len(sub) + 1) :
                    SubSeq(s, i, i + Len(sub) - 1) = sub}
    IN  IF hits = {} THEN 0 ELSE Min(hits)

\* the 1-based position of the rightmost occurrence of sub in s, 0 when none
rfind(s, sub) ==
    LET hits == {i \in 1..(Len(s) - Len(sub) + 1) :
                    SubSeq(s, i, i + Len(sub) - 1) = sub}
    IN  IF hits = {} THEN 0 ELSE Max(hits)

\* s.split(sep)
RECURSIVE split(_, _)
split(s, sep) ==
    LET i == find(s, sep)
    IN  IF i = 0 THEN <<s>>
        ELSE <<SubSeq(s, 1, i - 1)>> \o split(SubSeq(s, i + Len(sep), Len(s)), sep)

\* s.split(sep, 1)
split1(s, sep) ==
    LET i == find(s, sep)
    IN  IF i = 0 THEN <<s>>
        ELSE <<SubSeq(s, 1, i - 1), SubSeq(s, i + Len(sep), Len(s))>>

\* s.rsplit(sep, 1)
rsplit1(s, sep) ==
    LET i == rfind(s, sep)
    IN  IF i = 0 THEN <<s>>
        ELSE <<SubSeq(s, 1, i - 1), SubSeq(s, i + Len(sep), Len(s))>>

\* s.strip()
strip(s) ==
    LET keep == {i \in 1..Len(s) : s[i] \notin Whitespace}
    IN  IF keep = {} THEN <<>> ELSE SubSeq(s, Min(keep), Max(keep))

\* s.isdigit()
isdigit(s) == s # <<>> /\ \A i \in 1..Len(s) : s[i] \in Digits

\* sep.join(parts)
RECURSIVE join(_, _)
join(sep, parts) ==
    IF parts = <<>> THEN <<>>
    ELSE IF Len(parts) = 1 THEN parts[1]
    ELSE parts[1] \o sep \o join(sep, Tail(parts))

\* bool(x) of a str or None
Truthy(x) == x # None /\ x # <<>>

\* n copies of the character c
Rep(c, n) == [i \in 1..n |-> c]

---------------------------------------------------------------------------
(* Filename classifier.                                                    *)

CHUNK_SIZE == 1000

CHUNK_OVERLAP == 100

Raised == [exc |-> TRUE]

Returned(v) == [exc |-> FALSE, val |-> v]

\* faulty variant: the author segment is not lowercased
parse_filename_NoLower(filename) ==
    LET name == rsplit1(filename, <<".">>)[1]
    IN  IF ~In(<<"_">>, name) THEN Raised
        ELSE Returned(split1(name, <<"_">>)[1])

parse_filename(filename) ==
    LET name == rsplit1(filename, <<".">>)[1]
    IN  IF ~In(<<"_">>, name) THEN Raised
        ELSE Returned(lower(split1(name, <<"_">>)[1]))

\* faulty variant: the quotes marker is tested before the positions marker
get_file_type_QuotesFirst(filename) ==
    LET lo == lower(filename)
    IN  IF In(<<"_","q","u","o","t","e","s","_">>, lo) THEN "quotes"
        ELSE IF In(<<"_","p","o","s","i","t","i","o","n","s","_">>, lo) THEN "positions"
        ELSE IF In(<<"_","w","o","r","k","s","_">>, lo) THEN "works"
        ELSE IF In(<<"_","a","r","g","u","m","e","n","t","s","_">>, lo) THEN "arguments"
        ELSE "chunks"

get_file_type(filename) ==
    LET lo == lower(filename)
    IN  IF In(<<"_","p","o","s","i","t","i","o","n","s","_">>, lo) THEN "positions"
        ELSE IF In(<<"_","q","u","o","t","e","s","_">>, lo) THEN "quotes"
        ELSE IF In(<<"_","w","o","r","k","s","_">>, lo) THEN "works"
        ELSE IF In(<<"_","a","r","g","u","m","e","n","t","s","_">>, lo) THEN "arguments"
        ELSE "chunks"

---------------------------------------------------------------------------
(* Extractors.                                                             *)

RECURSIVE windows(_, _, _, _)
windows(text, start, chunk_size, overlap) ==
    IF start < Len(text)
    THEN <<strip(Slice(text, start, start + chunk_size))>>
         \o windows(text, start + chunk_size - overlap, chunk_size, overlap)
    ELSE <<>>

\* [c for c in chunks if c]
RECURSIVE NonEmpty(_)
NonEmpty(chunks) ==
    IF chunks = <<>> THEN <<>>
    ELSE (IF Head(chunks) # <<>> THEN <<Head(chunks)>> ELSE <<>>)
         \o NonEmpty(Tail(chunks))

chunk_text(text, chunk_size, overlap) ==
    NonEmpty(windows(text, 0, chunk_size, overlap))

\* faulty variant: a line needs all three fields
PipeEntry_ThreeFields(line) ==
    LET parts == split(line, <<" ", "|", " ">>)
    IN  IF Len(parts) >= 3
        THEN <<[thinker |-> strip(parts[1]),
                content |-> strip(parts[2]),
                topic   |-> strip(parts[3])]>>
        ELSE <<>>

PipeEntry(line) ==
    LET parts == split(line, <<" ", "|", " ">>)
    IN  IF Len(parts) >= 2
        THEN <<[thinker |-> strip(parts[1]),
                content |-> strip(parts[2]),
                topic   |-> IF Len(parts) >= 3 THEN strip(parts[3]) ELSE None]>>
        ELSE <<>>

RECURSIVE PipeLines(_)
PipeLines(lines) ==
    IF lines = <<>> THEN <<>>
    ELSE LET line == strip(Head(lines))
         IN  (IF line = <<>> \/ ~In(<<" ", "|", " ">>, line)
              THEN <<>> ELSE PipeEntry(line))
             \o PipeLines(Tail(lines))

extract_pipe_delimited(text) == PipeLines(split(text, <<"\n">>))

---------------------------------------------------------------------------
(* Regular-expression matching of extract_arguments, by position.          *)
(* Positions are 1-based; a match result is [ok, ...].                     *)

WordChars == Range(UpperCase) \cup Range(LowerCase) \cup Digits \cup {"_"}

NoMatch == [ok |-> FALSE]

\* the literal lit stands in s at position p
At(s, p, lit) ==
    /\ p >= 1
    /\ p + Len(lit) - 1 <= Len(s)
    /\ SubSeq(s, p, p + Len(lit) - 1) = lit

\* the first position at or after p whose character is outside Class
\* (Len(s) + 1 when there is none): where a greedy Class* starting at p ends
SkipWhile(s, p, Class) ==
    LET stop == {i \in p..Len(s) : s[i] \notin Class}
    IN  IF stop = {} THEN Len(s) + 1 ELSE Min(stop)

\* the first position at or after p where lit stands, 0 when none
findFrom(s, p, lit) ==
    LET hits == {i \in p..(Len(s) - Len(lit) + 1) : At(s, i, lit)}
    IN  IF hits = {} THEN 0 ELSE Min(hits)

\* `$` without re.MULTILINE: at the end, or before a newline that ends s
AtEnd(s, p) == p = Len(s) + 1 \/ (p = Len(s) /\ s[p] = "\n")

\* int(digits)
RECURSIVE int(_)
int(ds) ==
    IF ds = <<>> THEN 0
    ELSE int(SubSeq(ds, 1, Len(ds) - 1)) * 10
         + (CHOOSE n \in 0..9 : <<"0","1","2","3","4","5","6","7","8","9">>[n + 1] = ds[Len(ds)])

\* r'###\s*Argument\s+\d+\s*\(([^)]+)\)' tried at position p
HeaderAt(s, p) ==
    IF ~At(s, p, <<"#","#","#">>) THEN NoMatch
    ELSE LET a == SkipWhile(s, p + 3, Whitespace)
         IN  IF ~At(s, a, <<"A","r","g","u","m","e","n","t">>) THEN NoMatch
             ELSE LET b == a + Len(<<"A","r","g","u","m","e","n","t">>)
                      c == SkipWhile(s, b, Whitespace)
                      d == SkipWhile(s, c, Digits)
                      e == SkipWhile(s, d, Whitespace)
                      f == findFrom(s, e + 1, <<")">>)
                  IN  IF c = b \/ d = c \/ ~At(s, e, <<"(">>) \/ f = 0 \/ f = e + 1
                      THEN NoMatch
                      ELSE [ok |-> TRUE, end |-> f + 1, group |-> SubSeq(s, e + 1, f - 1)]

\* re.split(header, text) from position `from`: the text up to the next header,
\* then that header's captured type, and so on
RECURSIVE re_split(_, _)
re_split(s, from) ==
    LET hits == {p \in from..Len(s) : HeaderAt(s, p).ok}
    IN  IF hits = {} THEN <<SubSeq(s, from, Len(s))>>
        ELSE LET p == Min(hits)
                 m == HeaderAt(s, p)
             IN  <<SubSeq(s, from, p - 1), m.group>> \o re_split(s, m.end)

\* re.search(r'\*\*Author:\*\*\s*(\w+)', block)
author_match(block) ==
    LET Try(p) == LET a == SkipWhile(block, p + Len(<<"*","*","A","u","t","h","o","r",":","*","*">>), Whitespace)
                      b == SkipWhile(block, a, WordChars)
                  IN  IF At(block, p, <<"*","*","A","u","t","h","o","r",":","*","*">>) /\ b > a
                      THEN [ok |-> TRUE, group |-> SubSeq(block, a, b - 1)]
                      ELSE NoMatch
        hits == {p \in 1..Len(block) : Try(p).ok}
    IN  IF hits = {} THEN NoMatch ELSE Try(Min(hits))

\* re.search(r'\*\*Premises:\*\*(.*?)(?:\*\*→|$)', block, re.DOTALL)
premises_section(block) ==
    LET p == findFrom(block, 1, <<"*","*","P","r","e","m","i","s","e","s",":","*","*">>)
        a == p + Len(<<"*","*","P","r","e","m","i","s","e","s",":","*","*">>)
        ends == {e \in a..(Len(block) + 1) : At(block, e, <<"*","*","→">>) \/ AtEnd(block, e)}
    IN  IF p = 0 THEN NoMatch
        ELSE [ok |-> TRUE, group |-> SubSeq(block, a, Min(ends) - 1)]

\* r'^-\s*(.+)$' with re.MULTILINE tried at position p of s: after the
\* dash the greedy \s* gives characters back until (.+) can start on a
\* character that is not a newline; (.+) then runs to the end of that line
PremiseAt(s, p) ==
    LET q == SkipWhile(s, p + 1, Whitespace)
        starts == {j \in (p + 1)..q : j <= Len(s) /\ s[j] # "\n"}
        j == Max(starts)
        eol == SkipWhile(s, j, {c \in Range(s) : c # "\n"})
    IN  IF (p = 1 \/ s[p - 1] = "\n") /\ s[p] = "-" /\ starts # {}
        THEN [ok |-> TRUE, end |-> eol, group |-> SubSeq(s, j, eol - 1)]
        ELSE NoMatch

\* re.findall(r'^-\s*(.+)$', s, re.MULTILINE) from position `from`
RECURSIVE premise_lines(_, _)
premise_lines(s, from) ==
    LET hits == {p \in from..Len(s) : PremiseAt(s, p).ok}
    IN  IF hits = {} THEN <<>>
        ELSE LET m == PremiseAt(s, Min(hits))
             IN  <<m.group>> \o premise_lines(s, m.end)

\* [p.strip() for p in premise_lines if p.strip()]
RECURSIVE StripNonEmpty(_)
StripNonEmpty(ps) ==
    IF ps = <<>> THEN <<>>
    ELSE (IF strip(Head(ps)) # <<>> THEN <<strip(Head(ps))>> ELSE <<>>)
         \o StripNonEmpty(Tail(ps))

\* re.search(r'\*\*→\s*Conclusion:\*\*\s*(.+?)(?:\n\n|\*Source|$)', block,
\* re.DOTALL): the lazy group starts after the whitespace and ends at the
\* first terminator; when only whitespace follows the marker the group is
\* one whitespace character given back by \s*
conclusion_match(block) ==
    LET Try(p) ==
            LET a == SkipWhile(block, p + Len(<<"*","*","→">>), Whitespace)
                b == a + Len(<<"C","o","n","c","l","u","s","i","o","n",":","*","*">>)
                q == SkipWhile(block, b, Whitespace)
                ends == {e \in (q + 1)..(Len(block) + 1) :
                            \/ At(block, e, <<"\n", "\n">>)
                            \/ At(block, e, <<"*","S","o","u","r","c","e">>)
                            \/ AtEnd(block, e)}
            IN  IF ~(At(block, p, <<"*","*","→">>) /\ At(block, a, <<"C","o","n","c","l","u","s","i","o","n",":","*","*">>)) THEN NoMatch
                ELSE IF q <= Len(block)
                THEN [ok |-> TRUE, group |-> SubSeq(block, q, Min(ends) - 1)]
                ELSE IF q > b
                THEN [ok |-> TRUE, group |-> SubSeq(block, q - 1, q - 1)]
                ELSE NoMatch
        hits == {p \in 1..Len(block) : Try(p).ok}
    IN  IF hits = {} THEN NoMatch ELSE Try(Min(hits))

\* re.search(r'\*Source:\s*([^|]+)', block)
source_match(block) ==
    LET Try(p) ==
            LET b == p + Len(<<"*","S","o","u","r","c","e",":">>)
                q == SkipWhile(block, b, Whitespace)
                e == SkipWhile(block, q, {c \in Range(block) : c # "|"})
            IN  IF ~At(block, p, <<"*","S","o","u","r","c","e",":">>) THEN NoMatch
                ELSE IF e > q
                THEN [ok |-> TRUE, group |-> SubSeq(block, q, e - 1)]
                ELSE IF q > b
                THEN [ok |-> TRUE, group |-> SubSeq(block, q - 1, q - 1)]
                ELSE NoMatch
        hits == {p \in 1..Len(block) : Try(p).ok}
    IN  IF hits = {} THEN NoMatch ELSE Try(Min(hits))

\* faulty variant: r'Importance:\s*(\d+)', any digits after "Importance:"
importance_match_AnyDigits(block) ==
    LET Try(p) ==
            LET a == SkipWhile(block, p + Len(<<"I","m","p","o","r","t","a","n","c","e",":">>), Whitespace)
                b == SkipWhile(block, a, Digits)
            IN  IF At(block, p, <<"I","m","p","o","r","t","a","n","c","e",":">>) /\ b > a
                THEN [ok |-> TRUE, group |-> SubSeq(block, a, b - 1)]
                ELSE NoMatch
        hits == {p \in 1..Len(block) : Try(p).ok}
    IN  IF hits = {} THEN NoMatch ELSE Try(Min(hits))

\* re.search(r'Importance:\s*(\d+)/10', block)
importance_match(block) ==
    LET Try(p) ==
            LET a == SkipWhile(block, p + Len(<<"I","m","p","o","r","t","a","n","c","e",":">>), Whitespace)
                b == SkipWhile(block, a, Digits)
            IN  IF At(block, p, <<"I","m","p","o","r","t","a","n","c","e",":">>) /\ b > a /\ At(block, b, <<"/", "1", "0">>)
                THEN [ok |-> TRUE, group |-> SubSeq(block, a, b - 1)]
                ELSE NoMatch
        hits == {p \in 1..Len(block) : Try(p).ok}
    IN  IF hits = {} THEN NoMatch ELSE Try(Min(hits))

\* json.dumps of one str (ASCII text)
RECURSIVE json_escape(_)
json_escape(s) ==
    IF s = <<>> THEN <<>>
    ELSE (CASE Head(s) = "\"" -> <<"\\", "\"">>
            [] Head(s) = "\\" -> <<"\\", "\\">>
            [] Head(s) = "\t" -> <<"\\", "t">>
            [] Head(s) = "\r" -> <<"\\", "r">>
            [] Head(s) = "\n" -> <<"\\", "n">>
            [] OTHER          -> <<Head(s)>>)
         \o json_escape(Tail(s))

\* json.dumps(premises), premises a list of str
json_dumps(premises) ==
    <<"[">>
    \o join(<<",", " ">>,
            [i \in 1..Len(premises) |-> <<"\"">> \o json_escape(premises[i]) \o <<"\"">>])
    \o <<"]">>

\* the body of extract_arguments' while loop for one (type, block) pair
ArgumentEntry(type, block) ==
    LET am == author_match(block)
        thinker == IF am.ok THEN lower(am.group) ELSE None
        ps == premises_section(block)
        premises == IF ps.ok THEN StripNonEmpty(premise_lines(ps.group, 1)) ELSE <<>>
        cm == conclusion_match(block)
        conclusion == IF cm.ok THEN strip(cm.group) ELSE <<>>
        sm == source_match(block)
        topic == IF sm.ok THEN strip(sm.group) ELSE None
        im == importance_match(block)
        importance == IF im.ok THEN int(im.group) ELSE 5
    IN  IF premises # <<>> /\ conclusion # <<>>
        THEN <<[thinker       |-> thinker,
                argument_type |-> lower(strip(type)),
                premises      |-> json_dumps(premises),
                conclusion    |-> conclusion,
                topic         |-> topic,
                importance    |-> importance]>>
        ELSE <<>>

RECURSIVE ArgumentBlocks(_, _)
ArgumentBlocks(argument_blocks, i) ==
    IF i < Len(argument_blocks)
    THEN ArgumentEntry(argument_blocks[i], argument_blocks[i + 1])
         \o ArgumentBlocks(argument_blocks, i + 2)
    ELSE <<>>

extract_arguments(text) == ArgumentBlocks(re_split(text, 1), 2)

---------------------------------------------------------------------------
(* The rows each ingest_*_file inserts (created_at, the time of the        *)
(* insert, is left out of every row).                                      *)

\* [p for p in parts if not p.isdigit()]
RECURSIVE NotDigits(_)
NotDigits(parts) ==
    IF parts = <<>> THEN <<>>
    ELSE (IF isdigit(Head(parts)) THEN <<>> ELSE <<Head(parts)>>)
         \o NotDigits(Tail(parts))

\* ingest_works_file's title
WorkTitle(filename) ==
    LET name == rsplit1(filename, <<".">>)[1]
        parts == split(name, <<"_">>)
        title_parts == NotDigits(SubSeq(parts, 3, Len(parts)))
    IN  IF title_parts # <<>> THEN join(<<" ">>, title_parts) ELSE name

\* ingest_chunks_file's source_file
SourceFile(filename) ==
    LET name == rsplit1(filename, <<".">>)[1]
        parts == split1(name, <<"_">>)
    IN  IF Len(parts) > 1 THEN parts[2] ELSE name
\* faulty variant: the row keeps the entry's thinker, with no fallback
ThinkerOr_NoFallback(entry_thinker, thinker_from_filename) == entry_thinker

\* the thinker a positions, quotes or arguments row gets:
\* e.get('thinker') or thinker_from_filename
ThinkerOr(entry_thinker, thinker_from_filename) ==
    IF Truthy(entry_thinker) THEN entry_thinker ELSE thinker_from_filename

PositionsRows(filename, text) ==
    LET thinker_from_filename == parse_filename(filename).val
        es == extract_pipe_delimited(text)
    IN  [i \in 1..Len(es) |->
            [table |-> "positions", src |-> filename,
             row |-> [thinker       |-> ThinkerOr(es[i].thinker, thinker_from_filename),
                      position_text |-> es[i].content,
                      topic         |-> es[i].topic]]]

QuotesRows(filename, text) ==
    LET thinker_from_filename == parse_filename(filename).val
        es == extract_pipe_delimited(text)
    IN  [i \in 1..Len(es) |->
            [table |-> "quotes", src |-> filename,
             row |-> [thinker    |-> ThinkerOr(es[i].thinker, thinker_from_filename),
                      quote_text |-> es[i].content,
                      topic      |-> es[i].topic]]]

\* faulty variant: the arguments row takes the block's author as it is
ArgumentsRows_AuthorOnly(filename, text) ==
    LET es == extract_arguments(text)
    IN  [i \in 1..Len(es) |->
            [table |-> "arguments", src |-> filename,
             row |-> [thinker       |-> es[i].thinker,
                      argument_type |-> es[i].argument_type,
                      premises      |-> es[i].premises,
                      conclusion    |-> es[i].conclusion,
                      topic         |-> es[i].topic,
                      importance    |-> es[i].importance]]]

ArgumentsRows(filename, text) ==
    LET thinker_from_filename == parse_filename(filename).val
        es == extract_arguments(text)
    IN  [i \in 1..Len(es) |->
            [table |-> "arguments", src |-> filename,
             row |-> [thinker       |-> ThinkerOr(es[i].thinker, thinker_from_filename),
                      argument_type |-> es[i].argument_type,
                      premises      |-> es[i].premises,
                      conclusion    |-> es[i].conclusion,
                      topic         |-> es[i].topic,
                      importance    |-> es[i].importance]]]

\* faulty variant: the index is the window's number, counted before the blank
\* windows are dropped
ChunksRows_WindowIndex(filename, text) ==
    LET ws == windows(text, 0, CHUNK_SIZE, CHUNK_OVERLAP)
        Kept(w) == w.chunk # <<>>
        numbered == SelectSeq([i \in 1..Len(ws) |-> [chunk |-> ws[i], n |-> i - 1]], Kept)
    IN  [i \in 1..Len(numbered) |->
            [table |-> "text_chunks", src |-> filename,
             row |-> [thinker     |-> parse_filename(filename).val,
                      source_file |-> SourceFile(filename),
                      chunk_text  |-> numbered[i].chunk,
                      chunk_index |-> numbered[i].n]]]

\* for index, chunk_text_content in enumerate(chunks)
ChunksRows(filename, text) ==
    LET chunks == chunk_text(text, CHUNK_SIZE, CHUNK_OVERLAP)
    IN  [i \in 1..Len(chunks) |->
            [table |-> "text_chunks", src |-> filename,
             row |-> [thinker     |-> parse_filename(filename).val,
                      source_file |-> SourceFile(filename),
                      chunk_text  |-> chunks[i],
                      chunk_index |-> i - 1]]]

WorksRows(filename, text) ==
    <<[table |-> "texts", src |-> filename,
       row |-> [thinker     |-> parse_filename(filename).val,
                title       |-> WorkTitle(filename),
                source_file |-> filename,
                content     |-> text]]>>

\* the routine ingest_file hands the file to
ingest_file(filename) ==
    LET file_type == get_file_type(filename)
    IN  IF file_type = "positions" THEN "ingest_positions_file"
        ELSE IF file_type = "quotes" THEN "ingest_quotes_file"
        ELSE IF file_type = "works" THEN "ingest_works_file"
        ELSE IF file_type = "arguments" THEN "ingest_arguments_file"
        ELSE "ingest_chunks_file"

\* the rows a routine inserts for a file, in insertion order
Rows(rtn, filename, text) ==
    CASE rtn = "ingest_positions_file" -> PositionsRows(filename, text)
      [] rtn = "ingest_quotes_file"    -> QuotesRows(filename, text)
      [] rtn = "ingest_works_file"     -> WorksRows(filename, text)
      [] rtn = "ingest_arguments_file" -> ArgumentsRows(filename, text)
      [] OTHER                         -> ChunksRows(filename, text)

---------------------------------------------------------------------------
(* The ingest folder of the model: a catalogue of files, of which a run    *)
(* finds any MaxFiles, listed in any order.                                *)

\* 'Kant_positions_1.txt'
N_POSITIONS ==
    <<"K","a","n","t","_","p","o","s","i","t","i","o","n","s","_","1",".",
      "t","x","t">>

\* 'freud_QUOTES_8.txt'
N_QUOTES ==
    <<"f","r","e","u","d","_","Q","U","O","T","E","S","_","8",".","t","x",
      "t">>

\* 'kuczynski_works_1_Logic.txt'
N_WORKS ==
    <<"k","u","c","z","y","n","s","k","i","_","w","o","r","k","s","_","1",
      "_","L","o","g","i","c",".","t","x","t">>

\* 'hume_arguments_2.txt'
N_ARGUMENTS ==
    <<"h","u","m","e","_","a","r","g","u","m","e","n","t","s","_","2",".",
      "t","x","t">>

\* 'plato_republic.txt'
N_CHUNKS ==
    <<"p","l","a","t","o","_","r","e","p","u","b","l","i","c",".","t","x",
      "t">>

\* 'README.txt'
N_README ==
    <<"R","E","A","D","M","E",".","t","x","t">>

\* 'kant.v2_positions'
N_DOTTED ==
    <<"k","a","n","t",".","v","2","_","p","o","s","i","t","i","o","n","s">>

\* '_works_arguments_.txt'
N_MULTI ==
    <<"_","w","o","r","k","s","_","a","r","g","u","m","e","n","t","s","_",
      ".","t","x","t">>

\* 'aristotle_notes.txt'
N_EMPTY ==
    <<"a","r","i","s","t","o","t","l","e","_","n","o","t","e","s",".","t",
      "x","t">>

\* 'mill_positions_2.txt'
N_NOENTRY ==
    <<"m","i","l","l","_","p","o","s","i","t","i","o","n","s","_","2",".",
      "t","x","t">>

\* 'immanuel | duty | ethics\n\nnope\nwill | free\n'
T_POSITIONS ==
    <<"i","m","m","a","n","u","e","l"," ","|"," ","d","u","t","y"," ","|",
      " ","e","t","h","i","c","s","\n","\n","n","o","p","e","\n","w","i",
      "l","l"," ","|"," ","f","r","e","e","\n">>

\* 'freud | the ego\n'
T_QUOTES ==
    <<"f","r","e","u","d"," ","|"," ","t","h","e"," ","e","g","o","\n">>

\* 'Logic is formal.\n'
T_WORKS ==
    <<"L","o","g","i","c"," ","i","s"," ","f","o","r","m","a","l",".","\n">>

\* 'intro\n### Argument 1 (Deductive)\n**Author:** Locke\n**Premises:**\n- p1\n- p2\n**→ Conclusion:** c1\n*Source: causation | Importance: 7/10*\n\n### Argument 2 (inductive)\n**Premises:**\n- q1\n**→ Conclusion:** c2\n\n### Argument 3 (x)\n**Premises:**\n**→ Conclusion:** c3\n'
T_ARGUMENTS ==
    <<"i","n","t","r","o","\n","#","#","#"," ","A","r","g","u","m","e","n",
      "t"," ","1"," ","(","D","e","d","u","c","t","i","v","e",")","\n","*",
      "*","A","u","t","h","o","r",":","*","*"," ","L","o","c","k","e","\n",
      "*","*","P","r","e","m","i","s","e","s",":","*","*","\n","-"," ","p",
      "1","\n","-"," ","p","2","\n","*","*","→"," ","C","o","n","c","l","u",
      "s","i","o","n",":","*","*"," ","c","1","\n","*","S","o","u","r","c",
      "e",":"," ","c","a","u","s","a","t","i","o","n"," ","|"," ","I","m",
      "p","o","r","t","a","n","c","e",":"," ","7","/","1","0","*","\n","\n",
      "#","#","#"," ","A","r","g","u","m","e","n","t"," ","2"," ","(","i",
      "n","d","u","c","t","i","v","e",")","\n","*","*","P","r","e","m","i",
      "s","e","s",":","*","*","\n","-"," ","q","1","\n","*","*","→"," ","C",
      "o","n","c","l","u","s","i","o","n",":","*","*"," ","c","2","\n","\n",
      "#","#","#"," ","A","r","g","u","m","e","n","t"," ","3"," ","(","x",
      ")","\n","*","*","P","r","e","m","i","s","e","s",":","*","*","\n","*",
      "*","→"," ","C","o","n","c","l","u","s","i","o","n",":","*","*"," ",
      "c","3","\n">>

\* 'read me'
T_README ==
    <<"r","e","a","d"," ","m","e">>

\* 'kant | duty\n'
T_DOTTED ==
    <<"k","a","n","t"," ","|"," ","d","u","t","y","\n">>

\* 'W'
T_MULTI ==
    <<"W">>

\* 'nothing here\n'
T_NOENTRY ==
    <<"n","o","t","h","i","n","g"," ","h","e","r","e","\n">>

\* 'x', 1900 spaces, 'y': the middle window of three is blank
T_CHUNKS == <<"x">> \o Rep(" ", 1900) \o <<"y">>

\* a file of two blank lines: every window is blank
T_EMPTY == <<" ", "\n", "\n">>

Catalog ==
    { [name |-> N_POSITIONS, text |-> T_POSITIONS],
      [name |-> N_QUOTES,    text |-> T_QUOTES],
      [name |-> N_WORKS,     text |-> T_WORKS],
      [name |-> N_ARGUMENTS, text |-> T_ARGUMENTS],
      [name |-> N_CHUNKS,    text |-> T_CHUNKS],
      [name |-> N_README,    text |-> T_README],
      [name |-> N_DOTTED,    text |-> T_DOTTED],
      [name |-> N_MULTI,     text |-> T_MULTI],
      [name |-> N_EMPTY,     text |-> T_EMPTY],
      [name |-> N_NOENTRY,   text |-> T_NOENTRY] }

Names == {f.name : f \in Catalog}

\* f.read() of the file called name
Content(name) == (CHOOSE f \in Catalog : f.name = name).text

\* the orders in which os.listdir can return up to MaxFiles of the names
Listings ==
    {s \in UNION {[1..n -> Names] : n \in 0..MaxFiles} :
        \A i, j \in DOMAIN s : i # j => s[i] # s[j]}

---------------------------------------------------------------------------
(* The batch run: main.                                                    *)

\* faulty variant: main lists every entry
Enumerated_All(f) == TRUE

\* main's filter on os.listdir: '_' in f
Enumerated(f) == In(<<"_">>, f)

\* faulty variant: the handler leaves the open transaction as it is
Rollback_Keeps(p) == p

\* the connection's open transaction after conn.rollback()
Rollback(p) == <<>>

\* faulty variant: the commit makes nothing durable
Commit_Lost(c, p) == c

\* the database after conn.commit() of the open transaction p
Commit(c, p) == c \o p

\* the file the for loop is at
filename == files[idx]

Did(ops) == trace \cup {<<filename, op>> : op \in ops}

Init ==
    /\ folderExists \in BOOLEAN
    /\ dbUrl \in BOOLEAN
    /\ listing \in Listings
    /\ folderExists = FALSE => listing = <<>>
    /\ dir = Range(listing)
    /\ files = <<>>
    /\ idx = 0
    /\ pc = "main"
    /\ routine = "none"
    /\ entries = <<>>
    /\ k = 0
    /\ pending = <<>>
    /\ committed = <<>>
    /\ fstate = <<>>
    /\ trace = {}
    /\ arg = <<>>
    /\ ret = <<>>
    /\ c_start = 0
    /\ c_chunks = <<>>
    /\ run = 1

\* lines 293-304: create the folder and return, or list it
Main ==
    /\ pc = "main"
    /\ IF ~folderExists
       THEN /\ folderExists' = TRUE
            /\ pc' = "returned"
            /\ UNCHANGED <<files, fstate>>
       ELSE /\ files' = SelectSeq(listing, Enumerated)
            /\ fstate' = [i \in 1..Len(files') |-> "Pending"]
            /\ pc' = IF files' = <<>> THEN "returned" ELSE "connect"
            /\ UNCHANGED folderExists
    /\ UNCHANGED <<dbUrl, listing, dir, idx, routine, entries, k, pending,
                   committed, trace, arg, ret, c_start, c_chunks, run>>

\* faulty variant: the connection string is not looked at
Connect_NoCheck ==
    /\ pc = "connect"
    /\ \E connected \in BOOLEAN :
          IF connected
          THEN pc' = "loop" /\ idx' = 1
          ELSE pc' = "aborted" /\ UNCHANGED idx
    /\ UNCHANGED <<folderExists, dbUrl, listing, dir, files, routine, entries,
                   k, pending, committed, fstate, trace, arg, ret, c_start, c_chunks, run>>

\* line 305, get_db_connection: raises without DATABASE_URL or when
\* psycopg2.connect fails, and nothing in main catches it
Connect ==
    /\ pc = "connect"
    /\ \E connected \in BOOLEAN :
          IF dbUrl /\ connected
          THEN pc' = "loop" /\ idx' = 1
          ELSE pc' = "aborted" /\ UNCHANGED idx
    /\ UNCHANGED <<folderExists, dbUrl, listing, dir, files, routine, entries,
                   k, pending, committed, fstate, trace, arg, ret, c_start, c_chunks, run>>

\* lines 307-310 and ingest_file: take the next file and pick its routine
Dispatch ==
    /\ pc = "loop"
    /\ idx <= Len(files)
    /\ routine' = ingest_file(filename)
    /\ fstate' = [fstate EXCEPT ![idx] = "Processing"]
    /\ trace' = Did({"classify"})
    /\ pc' = "parse"
    /\ UNCHANGED <<folderExists, dbUrl, listing, dir, files, idx, entries, k,
                   pending, committed, arg, ret, c_start, c_chunks, run>>

\* the routine's call of parse_filename
Parse ==
    /\ pc = "parse"
    /\ IF parse_filename(filename).exc
       THEN pc' = "except" /\ trace' = Did({"parse_failed"})
       ELSE pc' = "read" /\ UNCHANGED trace
    /\ UNCHANGED <<folderExists, dbUrl, listing, dir, files, idx, routine,
                   entries, k, pending, committed, fstate, arg, ret, c_start, c_chunks, run>>

\* faulty variant: a routine that returns early when nothing was extracted
Read_SkipEmpty ==
    /\ pc = "read"
    /\ \E ok \in BOOLEAN :
          IF ok /\ filename \in dir
          THEN LET es == Rows(routine, filename, Content(filename))
               IN  /\ entries' = es
                   /\ k' = 1
                   /\ trace' = Did({"read"})
                   /\ IF es = <<>>
                      THEN /\ pc' = "loop"
                           /\ idx' = idx + 1
                           /\ fstate' = [fstate EXCEPT ![idx] = "Committed"]
                      ELSE /\ pc' = "insert"
                           /\ UNCHANGED <<idx, fstate>>
          ELSE /\ pc' = "except"
               /\ trace' = Did({"read", "read_failed"})
               /\ UNCHANGED <<entries, k, idx, fstate>>
    /\ UNCHANGED <<folderExists, dbUrl, listing, dir, files, routine,
                   pending, committed, arg, ret, c_start, c_chunks, run>>

\* open, f.read() and the extractor; any of them may raise
Read ==
    /\ pc = "read"
    /\ \E ok \in BOOLEAN :
          IF ok /\ filename \in dir
          THEN /\ entries' = Rows(routine, filename, Content(filename))
               /\ k' = 1
               /\ trace' = Did({"read"})
               /\ pc' = "insert"
          ELSE /\ pc' = "except"
               /\ trace' = Did({"read", "read_failed"})
               /\ UNCHANGED <<entries, k>>
    /\ UNCHANGED <<folderExists, dbUrl, listing, dir, files, idx, routine,
                   pending, committed, fstate, arg, ret, c_start, c_chunks, run>>

\* faulty variant: the connection is in autocommit mode, each execute is durable
Insert_Autocommit ==
    /\ pc = "insert"
    /\ k <= Len(entries)
    /\ \E ok \in BOOLEAN :
          IF ok
          THEN /\ committed' = Append(committed, entries[k])
               /\ k' = k + 1
               /\ trace' = Did({"insert", "inserted"})
               /\ pc' = "insert"
          ELSE /\ pc' = "except"
               /\ trace' = Did({"insert", "insert_failed"})
               /\ UNCHANGED <<committed, k>>
    /\ UNCHANGED <<folderExists, dbUrl, listing, dir, files, idx, routine,
                   entries, pending, fstate, arg, ret, c_start, c_chunks, run>>

\* one cursor.execute of the routine's loop
Insert ==
    /\ pc = "insert"
    /\ k <= Len(entries)
    /\ \E ok \in BOOLEAN :
          IF ok
          THEN /\ pending' = Append(pending, entries[k])
               /\ k' = k + 1
               /\ trace' = Did({"insert", "inserted"})
               /\ pc' = "insert"
          ELSE /\ pc' = "except"
               /\ trace' = Did({"insert", "insert_failed"})
               /\ UNCHANGED <<pending, k>>
    /\ UNCHANGED <<folderExists, dbUrl, listing, dir, files, idx, routine,
                   entries, committed, fstate, arg, ret, c_start, c_chunks, run>>

\* conn.commit() after the loop
CommitFile ==
    /\ pc = "insert"
    /\ k > Len(entries)
    /\ \E ok \in BOOLEAN :
          IF ok
          THEN /\ committed' = Commit(committed, pending)
               /\ pending' = <<>>
               /\ trace' = Did({"commit", "committed"})
               /\ pc' = "remove"
          ELSE /\ pc' = "except"
               /\ trace' = Did({"commit", "commit_failed"})
               /\ UNCHANGED <<pending, committed>>
    /\ UNCHANGED <<folderExists, dbUrl, listing, dir, files, idx, routine,
                   entries, k, fstate, arg, ret, c_start, c_chunks, run>>

\* cursor.close() and os.remove(filepath); either may raise, and then the
\* file stays; after os.remove the routine returns and the loop moves on
Remove ==
    /\ pc = "remove"
    /\ \E ok \in BOOLEAN :
          IF ok
          THEN /\ dir' = dir \ {filename}
               /\ fstate' = [fstate EXCEPT ![idx] = "Committed"]
               /\ trace' = Did({"remove", "removed"})
               /\ idx' = idx + 1
               /\ pc' = "loop"
          ELSE /\ pc' = "except"
               /\ trace' = Did({"remove", "remove_failed"})
               /\ UNCHANGED <<dir, fstate, idx>>
    /\ UNCHANGED <<folderExists, dbUrl, listing, files, routine, entries, k,
                   pending, committed, arg, ret, c_start, c_chunks, run>>

\* lines 312-315: the handler prints the error and calls conn.rollback();
\* a rollback that raises leaves main
Except ==
    /\ pc = "except"
    /\ fstate' = [fstate EXCEPT ![idx] = "Failed"]
    /\ \E ok \in BOOLEAN :
          IF ok
          THEN /\ pending' = Rollback(pending)
               /\ trace' = Did({"error", "rollback"})
               /\ idx' = idx + 1
               /\ pc' = "loop"
          ELSE /\ pc' = "aborted"
               /\ trace' = Did({"error", "rollback", "rollback_failed"})
               /\ UNCHANGED <<pending, idx>>
    /\ UNCHANGED <<folderExists, dbUrl, listing, dir, files, routine, entries,
                   k, committed, arg, ret, c_start, c_chunks, run>>

\* lines 317-319: conn.close() and "Done."
Close ==
    /\ pc = "loop"
    /\ idx > Len(files)
    /\ pc' = "done"
    /\ UNCHANGED <<folderExists, dbUrl, listing, dir, files, idx, routine,
                   entries, k, pending, committed, fstate, trace, arg, ret, c_start, c_chunks, run>>

Next ==
    \/ Main
    \/ Connect
    \/ Dispatch
    \/ Parse
    \/ Read
    \/ Insert
    \/ CommitFile
    \/ Remove
    \/ Except
    \/ Close

Spec == Init /\ [][Next]_vars

---------------------------------------------------------------------------
(* The classifier applied to every filename built from up to MaxSegs       *)
(* segments: parse_filename, get_file_type and ingest_file's choice.       *)

Segs ==
    { <<"_">>, <<".">>, <<"K">>,
      <<"p","o","s","i","t","i","o","n","s">>,
      <<"Q","U","O","T","E","S">>,
      <<"w","o","r","k","s">>,
      <<"a","r","g","u","m","e","n","t","s">> }

RECURSIVE Flatten(_)
Flatten(ss) == IF ss = <<>> THEN <<>> ELSE Head(ss) \o Flatten(Tail(ss))

GenNames == {Flatten(ss) : ss \in UNION {[1..n -> Segs] : n \in 0..MaxSegs}}

InitClassify ==
    /\ arg \in GenNames
    /\ ret = <<>>
    /\ pc = "call"
    /\ folderExists = TRUE
    /\ dbUrl = TRUE
    /\ listing = <<>>
    /\ dir = {}
    /\ files = <<>>
    /\ idx = 0
    /\ routine = "none"
    /\ entries = <<>>
    /\ k = 0
    /\ pending = <<>>
    /\ committed = <<>>
    /\ fstate = <<>>
    /\ trace = {}
    /\ c_start = 0
    /\ c_chunks = <<>>
    /\ run = 1

\* ingest_file(arg) up to the routine's call of parse_filename
Classify ==
    /\ pc = "call"
    /\ routine' = ingest_file(arg)
    /\ ret' = [file_type |-> get_file_type(arg), thinker |-> parse_filename(arg)]
    /\ pc' = "classified"
    /\ UNCHANGED <<folderExists, dbUrl, listing, dir, files, idx, entries, k,
                   pending, committed, fstate, trace, arg, c_start, c_chunks,
                   run>>

NextClassify == Classify

SpecClassify == InitClassify /\ [][NextClassify]_vars

---------------------------------------------------------------------------
(* chunk_text, statement by statement, on generated texts.                 *)

TextChars == {"x", " "}

GenTexts == UNION {[1..n -> TextChars] : n \in 0..MaxText}

\* the calls chunk_text(text, chunk_size, overlap) with chunk_size > overlap >= 0
ChunkCalls ==
    {[text |-> t, chunk_size |-> s, overlap |-> o] :
        t \in GenTexts, s \in 1..MaxSize, o \in 0..(MaxSize - 1)}

InitChunk ==
    /\ arg \in {c \in ChunkCalls : c.chunk_size > c.overlap}
    /\ ret = <<>>
    /\ pc = "while"
    /\ c_start = 0
    /\ c_chunks = <<>>
    /\ folderExists = TRUE
    /\ dbUrl = TRUE
    /\ listing = <<>>
    /\ dir = {}
    /\ files = <<>>
    /\ idx = 0
    /\ routine = "none"
    /\ entries = <<>>
    /\ k = 0
    /\ pending = <<>>
    /\ committed = <<>>
    /\ fstate = <<>>
    /\ trace = {}
    /\ run = 1

\* faulty variant: the next window starts where this one ended
ChunkLoop_NoOverlap ==
    /\ pc = "while"
    /\ c_start < Len(arg.text)
    /\ LET end == c_start + arg.chunk_size
       IN  /\ c_chunks' = Append(c_chunks, strip(Slice(arg.text, c_start, end)))
           /\ c_start' = end
    /\ UNCHANGED <<folderExists, dbUrl, listing, dir, files, idx, pc, routine,
                   entries, k, pending, committed, fstate, trace, arg, ret, run>>

\* one pass of `while start < len(text)`
ChunkLoop ==
    /\ pc = "while"
    /\ c_start < Len(arg.text)
    /\ LET end == c_start + arg.chunk_size
       IN  /\ c_chunks' = Append(c_chunks, strip(Slice(arg.text, c_start, end)))
           /\ c_start' = end - arg.overlap
    /\ UNCHANGED <<folderExists, dbUrl, listing, dir, files, idx, pc, routine,
                   entries, k, pending, committed, fstate, trace, arg, ret, run>>

\* the loop is left: return [c for c in chunks if c]
ChunkReturn ==
    /\ pc = "while"
    /\ ~(c_start < Len(arg.text))
    /\ ret' = NonEmpty(c_chunks)
    /\ pc' = "chunked"
    /\ UNCHANGED <<folderExists, dbUrl, listing, dir, files, idx, routine,
                   entries, k, pending, committed, fstate, trace, arg, c_start,
                   c_chunks, run>>

NextChunk == ChunkLoop \/ ChunkReturn

\* a called function runs: each enabled statement is eventually executed
SpecChunk == InitChunk /\ [][NextChunk]_vars /\ WF_vars(NextChunk)

---------------------------------------------------------------------------
(* extract_pipe_delimited and the rows built from it, on generated texts.  *)

PipeSegs ==
    { <<"a"," ","|"," ","b">>, <<" ","|"," ">>, <<"c">>, <<" ">>, <<"\n">> }

GenPipeTexts ==
    {Flatten(ss) : ss \in UNION {[1..n -> PipeSegs] : n \in 0..MaxPipeSegs}}

InitPipe ==
    /\ arg \in GenPipeTexts
    /\ ret = <<>>
    /\ pc = "call_pipe"
    /\ folderExists = TRUE
    /\ dbUrl = TRUE
    /\ listing = <<>>
    /\ dir = {}
    /\ files = <<>>
    /\ idx = 0
    /\ routine = "none"
    /\ entries = <<>>
    /\ k = 0
    /\ pending = <<>>
    /\ committed = <<>>
    /\ fstate = <<>>
    /\ trace = {}
    /\ c_start = 0
    /\ c_chunks = <<>>
    /\ run = 1

\* extract_pipe_delimited(arg), and the rows ingest_positions_file and
\* ingest_quotes_file insert for a file of this content
ExtractPipe ==
    /\ pc = "call_pipe"
    /\ ret' = [entries   |-> extract_pipe_delimited(arg),
               positions |-> PositionsRows(N_POSITIONS, arg),
               quotes    |-> QuotesRows(N_QUOTES, arg)]
    /\ pc' = "extracted"
    /\ UNCHANGED <<folderExists, dbUrl, listing, dir, files, idx, routine,
                   entries, k, pending, committed, fstate, trace, arg, c_start,
                   c_chunks, run>>

NextPipe == ExtractPipe

SpecPipe == InitPipe /\ [][NextPipe]_vars

---------------------------------------------------------------------------
(* extract_arguments on generated documents: pieces of the markdown        *)
(* format, put together in every order.                                    *)

\* ### Argument 1 (D)\n
U_H ==
    <<"#","#","#"," ","A","r","g","u","m","e","n","t"," ","1"," ","(","D",
      ")","\n">>

\* ### Argument 2 (I)\nImportance: 3/5\n
U_H2 ==
    <<"#","#","#"," ","A","r","g","u","m","e","n","t"," ","2"," ","(","I",
      ")","\n","I","m","p","o","r","t","a","n","c","e",":"," ","3","/","5",
      "\n">>

\* **Premises:**\n- p\n**→ Conclusion:** c\n
U_PC ==
    <<"*","*","P","r","e","m","i","s","e","s",":","*","*","\n","-"," ","p",
      "\n","*","*","→"," ","C","o","n","c","l","u","s","i","o","n",":","*",
      "*"," ","c","\n">>

\* **Premises:**\n- q\n
U_P ==
    <<"*","*","P","r","e","m","i","s","e","s",":","*","*","\n","-"," ","q",
      "\n">>

\* **→ Conclusion:** d\n
U_C ==
    <<"*","*","→"," ","C","o","n","c","l","u","s","i","o","n",":","*","*",
      " ","d","\n">>

\* **Premises:**\n-\nx\n
U_D ==
    <<"*","*","P","r","e","m","i","s","e","s",":","*","*","\n","-","\n","x",
      "\n">>

\* *Source: t | Importance: 15/10*\n
U_I15 ==
    <<"*","S","o","u","r","c","e",":"," ","t"," ","|"," ","I","m","p","o",
      "r","t","a","n","c","e",":"," ","1","5","/","1","0","*","\n">>

\* Importance: 7/10\n
U_I7 ==
    <<"I","m","p","o","r","t","a","n","c","e",":"," ","7","/","1","0","\n">>

ArgSegs == {U_H, U_H2, U_PC, U_P, U_C, U_D, U_I15, U_I7}

GenDocuments ==
    {Flatten(ss) : ss \in UNION {[1..n -> ArgSegs] : n \in 0..MaxArgSegs}}

InitArguments ==
    /\ arg \in GenDocuments
    /\ ret = <<>>
    /\ pc = "call_arguments"
    /\ folderExists = TRUE
    /\ dbUrl = TRUE
    /\ listing = <<>>
    /\ dir = {}
    /\ files = <<>>
    /\ idx = 0
    /\ routine = "none"
    /\ entries = <<>>
    /\ k = 0
    /\ pending = <<>>
    /\ committed = <<>>
    /\ fstate = <<>>
    /\ trace = {}
    /\ c_start = 0
    /\ c_chunks = <<>>
    /\ run = 1

\* extract_arguments(arg): the call returns its list, it raises nothing
ExtractArguments ==
    /\ pc = "call_arguments"
    /\ ret' = extract_arguments(arg)
    /\ pc' = "arguments_extracted"
    /\ UNCHANGED <<folderExists, dbUrl, listing, dir, files, idx, routine,
                   entries, k, pending, committed, fstate, trace, arg, c_start,
                   c_chunks, run>>

NextArguments == ExtractArguments

SpecArguments == InitArguments /\ [][NextArguments]_vars

---------------------------------------------------------------------------
(* A second run of main on the folder the first run left.                  *)

\* main is started again once the first run is over: a new process lists
\* the folder as it is now and works on the same database; the history
\* keeps, of the first run, which files it committed
Rerun ==
    /\ run = 1
    /\ pc \in {"returned", "done", "aborted"}
    /\ run' = 2
    /\ listing' \in {l \in Listings : Range(l) = dir}
    /\ trace' = {<<t[1], "committed_before">> : t \in {u \in trace : u[2] = "committed"}}
    /\ files' = <<>>
    /\ fstate' = <<>>
    /\ idx' = 0
    /\ routine' = "none"
    /\ entries' = <<>>
    /\ k' = 0
    /\ pending' = <<>>
    /\ pc' = "main"
    /\ UNCHANGED <<folderExists, dbUrl, dir, committed, arg, ret, c_start,
                   c_chunks>>

NextRerun == Next \/ Rerun

SpecRerun == Init /\ [][NextRerun]_vars

---------------------------------------------------------------------------
(* Properties of the batch run (Spec).                                     *)

Happened(f, op) == <<f, op>> \in trace

Started == idx >= 1

Terminated == pc \in {"done", "aborted"}

IsPrefix(s, t) == Len(s) <= Len(t) /\ SubSeq(t, 1, Len(s)) = s

\* C1: in every state of a batch run a source file has been deleted from
\* the ingest folder if and only if the transaction holding its records was
\* committed: no file is deleted without its commit, and no file whose
\* commit succeeded is still on disk once its processing has finished.
C1_DeleteIffCommitted ==
    \A i \in DOMAIN files :
        /\ files[i] \notin dir => Happened(files[i], "committed")
        /\ (fstate[i] \in {"Committed", "Failed"} /\ Happened(files[i], "committed"))
              => files[i] \notin dir

\* C2: failure isolation: a file whose processing raised has had the open
\* transaction rolled back and is still on disk, and a run that reached the
\* loop ends at "Done." with every enumerated file processed, whichever
\* files failed.
C2_FailureIsolation ==
    /\ \A i \in DOMAIN files :
          fstate[i] = "Failed" =>
              /\ files[i] \in dir
              /\ Happened(files[i], "rollback")
              /\ (i < idx => \A j \in DOMAIN pending : pending[j].src # files[i])
    /\ (Started /\ Terminated) =>
          /\ pc = "done"
          /\ \A i \in DOMAIN files : fstate[i] \in {"Committed", "Failed"}

\* C3: per-file atomicity: when an insert or the commit of a file failed,
\* none of that file's rows is in the committed store, including the rows
\* inserted before the failure; and no step takes a committed row of an
\* earlier file out of the store.
C3_PerFileAtomicity ==
    /\ [](\A i \in DOMAIN files :
            (Happened(files[i], "insert_failed") \/ Happened(files[i], "commit_failed"))
                => \A j \in DOMAIN committed : committed[j].src # files[i])
    /\ [][IsPrefix(committed, committed')]_vars

C3_Witness ==
    /\ pc = "done"
    /\ Len(files) = 2
    /\ Happened(files[1], "committed")
    /\ \E j \in DOMAIN committed : committed[j].src = files[1]
    /\ Happened(files[2], "inserted")
    /\ Happened(files[2], "insert_failed")

\* C4: the connection's transaction never leaks between files: when the
\* dispatcher starts a file the connection holds no uncommitted insert, the
\* uncommitted inserts are always those of the file being processed, and a
\* commit persists only rows derived from the file it is issued for.
C4_NoTransactionLeak ==
    /\ [](pc \in {"loop", "parse", "read"} => pending = <<>>)
    /\ [](\A j \in DOMAIN pending : Started /\ pending[j].src = files[idx])
    /\ [][\A j \in (Len(committed) + 1)..Len(committed') :
              committed'[j].src = files[idx]]_vars

C4_Witness ==
    /\ pc = "parse"
    /\ idx = 2
    /\ Happened(files[1], "inserted")
    /\ Happened(files[1], "insert_failed")

\* C5: each enumerated file goes Pending -> Processing -> {Committed,
\* Failed}: files are processed one at a time in enumeration order, the
\* files before the loop position are Committed or Failed and those after
\* it Pending, a Failed file is left on disk, and every file has reached
\* Committed or Failed when the run that started the loop has ended.
C5_FileStateMachine ==
    /\ \A i \in DOMAIN fstate :
          /\ fstate[i] \in {"Pending", "Processing", "Committed", "Failed"}
          /\ i < idx => fstate[i] \in {"Committed", "Failed"}
          /\ i > idx => fstate[i] = "Pending"
          /\ fstate[i] = "Failed" => files[i] \in dir
    /\ (Started /\ Terminated) =>
          \A i \in DOMAIN fstate : fstate[i] \in {"Committed", "Failed"}

\* C6: every row persisted in any of the five tables carries a thinker
\* that is not null: the author derived from the file's name, or a thinker
\* present in the file's content.
C6_ThinkerNotNull ==
    \A j \in DOMAIN committed :
        LET r == committed[j]
        IN  /\ r.table \in {"positions", "quotes", "arguments", "text_chunks", "texts"}
            /\ r.row.thinker # None
            /\ \/ r.row.thinker = lower(SubSeq(r.src, 1, Min({i \in 1..Len(r.src) : r.src[i] = "_"}) - 1))
               \/ In(r.row.thinker, Content(r.src))
               \/ In(r.row.thinker, lower(Content(r.src)))

C6_Witness ==
    /\ \E j \in DOMAIN committed :
          /\ committed[j].table = "arguments"
          /\ committed[j].row.thinker = <<"h","u","m","e">>
    /\ \E j \in DOMAIN committed :
          /\ committed[j].table = "arguments"
          /\ committed[j].row.thinker = <<"l","o","c","k","e">>
    /\ \E j \in DOMAIN committed :
          /\ committed[j].table = "texts"
          /\ committed[j].row.thinker = <<>>

\* C9: a directory entry whose name has no underscore is ignored by the
\* batch: it is not enumerated, never classified or read, causes no insert,
\* commit, rollback or error, is never removed, and stays on disk.
C9_NoUnderscoreIgnored ==
    \A n \in Range(listing) :
        (\A i \in 1..Len(n) : n[i] # "_") =>
            /\ n \in dir
            /\ n \notin Range(files)
            /\ \A t \in trace : t[1] # n

C9_Witness ==
    /\ pc = "done"
    /\ N_README \in Range(listing)
    /\ \E i \in DOMAIN files : fstate[i] = "Committed"

\* C10: for every chunks file, the chunk_index values of its text_chunks
\* rows, inserted or committed, are 0, 1, ..., n-1 in insertion order, with
\* no gap and no duplicate, also when blank windows were dropped.
C10_ChunkIndexContiguous ==
    \A f \in Range(files) :
        LET Mine(r) == r.table = "text_chunks" /\ r.src = f
            stored == SelectSeq(committed, Mine)
            open == SelectSeq(pending, Mine)
        IN  /\ \A j \in DOMAIN stored : stored[j].row.chunk_index = j - 1
            /\ \A j \in DOMAIN open : open[j].row.chunk_index = j - 1

C10_Witness ==
    /\ Happened(N_CHUNKS, "committed")
    /\ LET Mine(r) == r.table = "text_chunks" /\ r.src = N_CHUNKS
       IN  /\ Len(SelectSeq(committed, Mine)) = 2
           /\ Len(windows(T_CHUNKS, 0, CHUNK_SIZE, CHUNK_OVERLAP)) = 3

---------------------------------------------------------------------------
(* Properties of the classifier (SpecClassify).                            *)

MarkerOrder ==
    << [marker |-> <<"_","p","o","s","i","t","i","o","n","s","_">>, type |-> "positions"],
       [marker |-> <<"_","q","u","o","t","e","s","_">>, type |-> "quotes"],
       [marker |-> <<"_","w","o","r","k","s","_">>, type |-> "works"],
       [marker |-> <<"_","a","r","g","u","m","e","n","t","s","_">>, type |-> "arguments"] >>

Underscores(f) == {i \in 1..Len(f) : f[i] = "_"}

\* the filename from its first underscore on: what follows the author segment
Remainder(f) ==
    IF Underscores(f) = {} THEN <<>> ELSE SubSeq(f, Min(Underscores(f)), Len(f))

\* the text before the first underscore
AuthorSegment(f) == SubSeq(f, 1, Min(Underscores(f)) - 1)

\* the filename without its extension: the text before the last dot
Stem(f) ==
    LET dots == {i \in 1..Len(f) : f[i] = "."}
    IN  IF dots = {} THEN f ELSE SubSeq(f, 1, Max(dots) - 1)

\* C7: the record type of a filename is the first marker, in the order
\* _positions_, _quotes_, _works_, _arguments_, that occurs in the
\* lowercased remainder of the name, chunks when none occurs, and the
\* dispatcher hands the file to the ingest routine of exactly that type.
C7_TypeByPriority ==
    pc = "classified" =>
        LET hits == {j \in 1..4 : In(MarkerOrder[j].marker, lower(Remainder(arg)))}
            type == IF hits = {} THEN "chunks" ELSE MarkerOrder[Min(hits)].type
        IN  /\ ret.file_type = type
            /\ routine = CASE type = "positions" -> "ingest_positions_file"
                           [] type = "quotes"    -> "ingest_quotes_file"
                           [] type = "works"     -> "ingest_works_file"
                           [] type = "arguments" -> "ingest_arguments_file"
                           [] type = "chunks"    -> "ingest_chunks_file"

C7_Witness ==
    /\ pc = "classified"
    /\ In(MarkerOrder[1].marker, lower(arg))
    /\ In(MarkerOrder[2].marker, lower(arg))
    /\ find(lower(arg), MarkerOrder[2].marker) < find(lower(arg), MarkerOrder[1].marker)
    /\ routine = "ingest_positions_file"

\* C8 as stated: the thinkerId is the lowercased text before the first
\* underscore of the filename, and classification fails only when the
\* filename has no underscore.
C8_FailsOnlyWithoutUnderscore ==
    pc = "classified" =>
        IF Underscores(arg) = {}
        THEN ret.thinker.exc
        ELSE /\ ~ret.thinker.exc
             /\ ret.thinker.val = lower(AuthorSegment(arg))

\* C8 as amended: classification fails exactly when the filename without
\* its extension (the text before the last dot) has no underscore, and the
\* thinkerId is otherwise the lowercased text before the first underscore.
C8_FailsWithoutUnderscoreInStem ==
    pc = "classified" =>
        IF Underscores(Stem(arg)) = {}
        THEN ret.thinker.exc
        ELSE /\ ~ret.thinker.exc
             /\ ret.thinker.val = lower(AuthorSegment(arg))

C8_Witness ==
    /\ pc = "classified"
    /\ Underscores(arg) # {}
    /\ Underscores(Stem(arg)) = {}
    /\ ret.thinker.exc

---------------------------------------------------------------------------
(* C11 .. C20                                                              *)

CeilDiv(a, b) == (a + b - 1) \div b

Step == arg.chunk_size - arg.overlap

\* what the loop of chunk_text has done so far: window i (from 0) is the
\* trimmed text[i*Step : i*Step + chunk_size], the next window starts at
\* Len(c_chunks) * Step, and no more than ceil(len(text) / Step) windows
\* are taken
C11_Windows ==
    /\ c_start = Len(c_chunks) * Step
    /\ \A i \in 0..(Len(c_chunks) - 1) :
          /\ i * Step < Len(arg.text)
          /\ c_chunks[i + 1] =
                strip(Slice(arg.text, i * Step, i * Step + arg.chunk_size))
    /\ Len(c_chunks) <= CeilDiv(Len(arg.text), Step)
    /\ pc = "chunked" =>
          /\ Len(c_chunks) = CeilDiv(Len(arg.text), Step)
          /\ Len(ret) <= CeilDiv(Len(arg.text), Step)

\* C11: for every text and every size > overlap >= 0 chunk_text terminates,
\* window i starts at offset i * (size - overlap) for each i whose start is
\* below len(text), and at most ceil(len(text) / (size - overlap)) chunks
\* are returned.
C11_ChunkTextTerminates == [](C11_Windows) /\ <>(pc = "chunked")

\* a call with overlapping windows, of which one is dropped as blank
C11_Witness ==
    /\ pc = "chunked"
    /\ arg.overlap >= 1
    /\ Len(c_chunks) >= 3
    /\ Len(ret) < Len(c_chunks)
    /\ Len(ret) >= 1

\* the extractor of a positions, quotes or arguments file finds no record
ExtractsNothing(f) ==
    /\ ingest_file(f) \in {"ingest_positions_file", "ingest_quotes_file",
                           "ingest_arguments_file"}
    /\ IF ingest_file(f) = "ingest_arguments_file"
       THEN extract_arguments(Content(f)) = <<>>
       ELSE extract_pipe_delimited(Content(f)) = <<>>

\* the files of the catalogue whose extractor finds no record
NoRecordFiles == {f \in Names : ExtractsNothing(f)}

\* C12: a positions, quotes or arguments file that was read and from which
\* the extractor produced no record goes on to the commit with nothing
\* inserted, and when neither the commit nor the removal fails it ends
\* Committed and deleted, with no row of it stored and no error raised.
C12_EmptyFileCommits ==
    \A i \in DOMAIN files :
        LET f == files[i]
        IN  (Happened(f, "read") /\ ~Happened(f, "read_failed") /\ f \in NoRecordFiles) =>
                /\ ~Happened(f, "insert")
                /\ \A j \in DOMAIN pending : pending[j].src # f
                /\ \A j \in DOMAIN committed : committed[j].src # f
                /\ (i = idx /\ pc = "insert") => k > Len(entries)
                /\ (i < idx /\ ~Happened(f, "commit_failed") /\ ~Happened(f, "remove_failed")) =>
                      /\ fstate[i] = "Committed"
                      /\ Happened(f, "committed")
                      /\ f \notin dir
                      /\ ~Happened(f, "error")

\* a file without records was committed and removed, after a file with records
C12_Witness ==
    /\ Len(files) = 2
    /\ files[2] = N_NOENTRY
    /\ fstate = <<"Committed", "Committed">>
    /\ Happened(N_NOENTRY, "committed")
    /\ ~Happened(N_NOENTRY, "insert")
    /\ N_NOENTRY \notin dir
    /\ committed # <<>>

\* the run of main is over: it returned, or an exception left it
Ended == pc \in {"returned", "done", "aborted"}

\* nothing of the folder or the store has been touched
Untouched ==
    /\ trace = {}
    /\ dir = Range(listing)
    /\ pending = <<>>
    /\ committed = <<>>
    /\ idx = 0

\* C13: if the connection string is missing, the run aborts with a fatal
\* error before any file is touched, for every content of the ingest
\* directory: no file is read, no record inserted, no file deleted, and
\* the run ends with the error.
C13_MissingUrlAborts ==
    ~dbUrl => /\ Untouched
              /\ Ended => pc = "aborted"

\* C13, amended: without the connection string no file is read, no record
\* is inserted and no file is deleted, for every content of the ingest
\* directory; the run ends with the fatal error when at least one entry
\* was enumerated, and returns normally, before get_db_connection is
\* called, when the folder is missing or holds no enumerated entry.
C13_MissingUrlTouchesNothing ==
    ~dbUrl => /\ Untouched
              /\ Ended => IF files # <<>> THEN pc = "aborted" ELSE pc = "returned"

\* the run was aborted with two files waiting
C13_Witness ==
    /\ ~dbUrl
    /\ pc = "aborted"
    /\ Len(files) = 2
    /\ dir = Range(files)

\* the rows of file f in the committed store, in order
StoredOf(f) == SelectSeq(committed, LAMBDA r : r.src = f)

\* the arguments files of the catalogue
ArgumentsFiles == {f \in Names : ingest_file(f) = "ingest_arguments_file"}

\* what extract_arguments returns for each of them
EntriesOf == [f \in ArgumentsFiles |-> extract_arguments(Content(f))]

\* C14: an argument block without an `**Author:**` match that passes the
\* premises/conclusion filter is inserted into the arguments table with a
\* null thinker: no filename fallback is applied to arguments.
C14_NullThinkerKept ==
    \A f \in Range(files) :
        (f \in ArgumentsFiles /\ Happened(f, "committed")) =>
            LET es == EntriesOf[f]
                rows == StoredOf(f)
            IN  /\ Len(rows) = Len(es)
                /\ \A j \in DOMAIN es :
                      es[j].thinker = None =>
                          /\ rows[j].table = "arguments"
                          /\ rows[j].row.thinker = None

\* C14, amended: an argument block without an `**Author:**` match that
\* passes the premises/conclusion filter is inserted into the arguments
\* table with the filename-derived author as its thinker (the fallback of
\* positions and quotes is applied to arguments too); a block with an
\* author keeps the author.
C14_FilenameThinkerForArguments ==
    \A f \in Range(files) :
        (f \in ArgumentsFiles /\ Happened(f, "committed")) =>
            LET es == EntriesOf[f]
                rows == StoredOf(f)
            IN  /\ Len(rows) = Len(es)
                /\ \A j \in DOMAIN es :
                      /\ rows[j].table = "arguments"
                      /\ rows[j].row.conclusion = es[j].conclusion
                      /\ rows[j].row.thinker =
                            IF es[j].thinker = None
                            THEN lower(AuthorSegment(f))
                            ELSE es[j].thinker

\* a committed arguments file with a block that has no author
C14_Witness ==
    /\ Happened(N_ARGUMENTS, "committed")
    /\ \E j \in DOMAIN EntriesOf[N_ARGUMENTS] :
          /\ EntriesOf[N_ARGUMENTS][j].thinker = None
          /\ StoredOf(N_ARGUMENTS)[j].row.thinker = <<"h","u","m","e">>

DELIM == <<" ", "|", " ">>

\* the lines of the text given to the pipe extractor
LinesOf(text) == split(text, <<"\n">>)

\* a qualifying line: trimmed, it is non-empty and contains " | "
Qualifies(line) == strip(line) # <<>> /\ In(DELIM, strip(line))

QualifyingLines(text) == SelectSeq(LinesOf(text), Qualifies)

\* the fields of a qualifying line, trimmed
Fields(line) ==
    LET parts == split(strip(line), DELIM)
    IN  [i \in DOMAIN parts |-> strip(parts[i])]

\* the line as written leaves the thinker out: nothing but blanks stands
\* before its first " | "
OmitsThinker(line) ==
    LET p == find(line, DELIM)
    IN  p >= 0 /\ strip(Slice(line, 0, p)) = <<>>

\* what stands before the first " | " of the line as written, trimmed
FirstField(line) == strip(Slice(line, 0, find(line, DELIM)))

\* C15: for each qualifying line of a positions or quotes file, the row
\* persisted for it carries the filename-derived author as thinker when
\* the line omits the thinker, and the line's own thinker otherwise.
C15_ThinkerFallbackPerLine ==
    pc = "extracted" =>
        LET q == QualifyingLines(arg)
        IN  /\ Len(ret.positions) = Len(q)
            /\ Len(ret.quotes) = Len(q)
            /\ \A j \in DOMAIN q :
                  LET expected == IF OmitsThinker(q[j])
                                  THEN [p |-> lower(AuthorSegment(N_POSITIONS)),
                                        q |-> lower(AuthorSegment(N_QUOTES))]
                                  ELSE [p |-> FirstField(q[j]),
                                        q |-> FirstField(q[j])]
                  IN  /\ ret.positions[j].row.thinker = expected.p
                      /\ ret.quotes[j].row.thinker = expected.q

WorksFiles == {f \in Names : ingest_file(f) = "ingest_works_file"}

ChunksFiles == {f \in Names : ingest_file(f) = "ingest_chunks_file"}

\* the files whose content is empty, and those whose content is blank
EmptyFiles == {f \in Names : Content(f) = <<>>}

BlankFiles == {f \in Names : strip(Content(f)) = <<>>}

\* C16: a works file or a chunks file whose content is non-empty has at
\* least one persisted record once it is committed: exactly one texts
\* record for a works file, at least one text_chunks record for a chunks
\* file.
C16_NonEmptyContentPersists ==
    \A f \in Range(files) :
        (Happened(f, "committed") /\ f \notin EmptyFiles) =>
            /\ f \in WorksFiles =>
                  /\ Len(StoredOf(f)) = 1
                  /\ StoredOf(f)[1].table = "texts"
            /\ f \in ChunksFiles =>
                  /\ Len(StoredOf(f)) >= 1
                  /\ \A j \in DOMAIN StoredOf(f) : StoredOf(f)[j].table = "text_chunks"

\* C16, amended: a committed works file has exactly one texts record,
\* holding its content; a committed chunks file has at least one
\* text_chunks record when its content holds a character that is not
\* whitespace, and none when its content is blank.
C16_NonBlankContentPersists ==
    \A f \in Range(files) :
        Happened(f, "committed") =>
            /\ f \in WorksFiles =>
                  /\ Len(StoredOf(f)) = 1
                  /\ StoredOf(f)[1].table = "texts"
                  /\ StoredOf(f)[1].row.content = Content(f)
            /\ f \in ChunksFiles =>
                  /\ \A j \in DOMAIN StoredOf(f) : StoredOf(f)[j].table = "text_chunks"
                  /\ IF f \notin BlankFiles
                     THEN Len(StoredOf(f)) >= 1
                     ELSE Len(StoredOf(f)) = 0

\* a works file and a chunks file with text were committed
C16_Witness ==
    /\ Happened(N_WORKS, "committed")
    /\ Happened(N_CHUNKS, "committed")
    /\ Len(StoredOf(N_WORKS)) = 1
    /\ Len(StoredOf(N_CHUNKS)) = 2

\* the header-delimited blocks of a document, in order: the type captured
\* from each header and the text up to the next header
Blocks(text) ==
    LET parts == re_split(text, 1)
    IN  [j \in 1..((Len(parts) - 1) \div 2) |->
            [type |-> parts[2 * j], body |-> parts[2 * j + 1]]]

\* the blocks extract_arguments emits a record for, in order
EmittedBlocks(text) ==
    SelectSeq(Blocks(text), LAMBDA b : ArgumentEntry(b.type, b.body) # <<>>)

IMPORTANCE == <<"I","m","p","o","r","t","a","n","c","e",":">>

\* an importance token stands at p: "Importance:", blanks, digits, "/10"
ImportanceTokenAt(body, p) ==
    /\ At(body, p, IMPORTANCE)
    /\ \E a \in (p + Len(IMPORTANCE))..Len(body) :
          /\ \A i \in (p + Len(IMPORTANCE))..(a - 1) : body[i] \in Whitespace
          /\ body[a] \in Digits
          /\ \E e \in (a + 1)..Len(body) :
                /\ \A i \in a..(e - 1) : body[i] \in Digits
                /\ At(body, e, <<"/","1","0">>)

\* the integer of the token at p
ImportanceTokenValue(body, p) ==
    LET a == SkipWhile(body, p + Len(IMPORTANCE), Whitespace)
    IN  int(SubSeq(body, a, SkipWhile(body, a, Digits) - 1))

\* the importance a block states: that of its first token, 5 without one
StatedImportance(body) ==
    LET tokens == {p \in 1..Len(body) : ImportanceTokenAt(body, p)}
    IN  IF tokens = {} THEN 5 ELSE ImportanceTokenValue(body, Min(tokens))

\* C17: every record emitted by extract_arguments has an importance that
\* is an integer from 1 to 10: the integer written before "/10" after
\* "Importance:" in its block, and 5 when that token is absent or
\* unparsable.
C17_ImportanceInRange ==
    pc = "arguments_extracted" =>
        LET kept == EmittedBlocks(arg)
        IN  /\ Len(ret) = Len(kept)
            /\ \A j \in DOMAIN ret :
                  /\ ret[j].importance \in 1..10
                  /\ ret[j].importance = StatedImportance(kept[j].body)

\* C17, amended: every record emitted by extract_arguments has an
\* importance that is a non-negative integer, not held to 1..10: the
\* integer written before "/10" after "Importance:" at the first such
\* token of its block, and 5 when the block has no such token.
C17_ImportanceAsWritten ==
    pc = "arguments_extracted" =>
        LET kept == EmittedBlocks(arg)
        IN  /\ Len(ret) = Len(kept)
            /\ \A j \in DOMAIN ret :
                  /\ ret[j].importance \in Nat
                  /\ ret[j].importance = StatedImportance(kept[j].body)

\* a record of importance 15, as written after a token that cannot be read
C17_Witness ==
    /\ pc = "arguments_extracted"
    /\ arg = U_H2 \o U_PC \o U_I15
    /\ Len(ret) = 1
    /\ ret[1].importance = 15
    /\ StatedImportance(U_H2 \o U_PC) = 5

PREMISES == <<"*","*","P","r","e","m","i","s","e","s",":","*","*">>

ARROW == <<"*","*","→">>

CONCLUSION == <<"*","*","→"," ","C","o","n","c","l","u","s","i","o","n",":","*","*">>

\* the text of s from position p up to the first of the markers at or after
\* p, up to the end of s when none of them follows
UpTo(s, p, markers) ==
    LET stops == {e \in p..Len(s) : \E m \in markers : At(s, e, m)}
    IN  SubSeq(s, p, IF stops = {} THEN Len(s) ELSE Min(stops) - 1)

\* the premise a line contributes: a line beginning with "-" gives the
\* trimmed text after the dash, any other line nothing
RECURSIVE PremisesOfLines(_)
PremisesOfLines(lines) ==
    IF lines = <<>> THEN <<>>
    ELSE (IF Head(lines) # <<>> /\ Head(lines)[1] = "-" /\ strip(Tail(Head(lines))) # <<>>
          THEN <<strip(Tail(Head(lines)))>>
          ELSE <<>>)
         \o PremisesOfLines(Tail(lines))

\* the premises of a block: in the span between "**Premises:**" and the
\* next "**→" (or the end of the block), one for each line beginning with
\* "-", trimmed, the empty ones left out
BlockPremises(body) ==
    LET p == findFrom(body, 1, PREMISES)
    IN  IF p = 0 THEN <<>>
        ELSE PremisesOfLines(split(UpTo(body, p + Len(PREMISES), {ARROW}), <<"\n">>))

\* the conclusion of a block: the text after "**→ Conclusion:**" up to a
\* double newline, a "*Source" marker or the end of the block, trimmed
BlockConclusion(body) ==
    LET p == findFrom(body, 1, CONCLUSION)
    IN  IF p = 0 THEN <<>>
        ELSE strip(UpTo(body, p + Len(CONCLUSION),
                        {<<"\n","\n">>, <<"*","S","o","u","r","c","e">>}))

\* the blocks that have at least one premise and a non-empty conclusion
CompleteBlocks(text) ==
    SelectSeq(Blocks(text),
              LAMBDA b : BlockPremises(b.body) # <<>> /\ BlockConclusion(b.body) # <<>>)

\* C18: extract_arguments emits a record for a header-delimited block if
\* and only if the block has at least one premise and a non-empty
\* conclusion; the records keep the order of the blocks, each has a
\* non-empty premises list and a non-empty conclusion, the text before the
\* first header yields no record, and a dropped block neither raises nor
\* stops the blocks after it from being emitted.
C18_EmitsIffComplete ==
    pc = "arguments_extracted" =>
        LET complete == CompleteBlocks(arg)
        IN  /\ Len(ret) = Len(complete)
            /\ \A j \in DOMAIN ret :
                  /\ j \in DOMAIN complete
                  /\ ret[j].argument_type = lower(strip(complete[j].type))
                  /\ ret[j].premises = json_dumps(BlockPremises(complete[j].body))
                  /\ ret[j].premises # <<"[","]">>
                  /\ ret[j].conclusion = BlockConclusion(complete[j].body)
                  /\ ret[j].conclusion # <<>>

\* C20: re-running the batch never duplicates committed data: in a second
\* run on the folder the first run left, no record is inserted for a file
\* whose records the first run committed.
C20_RerunNoDuplicates ==
    run = 2 =>
        \A f \in Names :
            Happened(f, "committed_before") =>
                /\ ~Happened(f, "insert")
                /\ \A j \in DOMAIN pending : pending[j].src # f

============================================================================
